---- MODULE Spec2Model ----
(***************************************************************************)
(* Model of the LP APR update script (fetchAndUpdateLPsAPR and its         *)
(* helpers): farm configuration loading and partitioning, week-ago block   *)
(* resolution, sequential normal-farm batches, concurrent stable-farm      *)
(* lookups and the final file write.                                       *)
(***************************************************************************)
EXTENDS Integers, Sequences, FiniteSets, TLC

----------------------------------------------------------------------------
(* Bounds of the model *)

\* longest farm configuration the configuration module may hold
MaxFarms == 36

\* calls of the exported getFarmConfig made by importers of the module
MaxExtraLoads == 2

----------------------------------------------------------------------------
(* Program constants *)

\* chunk(lowerCaseAddresses, 30)
CHUNK_SIZE == 30

\* pairs(first: 30, ...)
QUERY_FIRST == 30

\* bignumber.js default configuration DECIMAL_PLACES (precision of dividedBy)
DECIMAL_PLACES == 20

\* lpApr.decimalPlaces(2)
NORMAL_DP == 2

----------------------------------------------------------------------------
(* Small helpers *)

Max(a, b) == IF a >= b THEN a ELSE b

RECURSIVE Pow10(_)
Pow10(n) == IF n = 0 THEN 1 ELSE 10 * Pow10(n - 1)

RECURSIVE Gcd(_, _)
Gcd(a, b) == IF b = 0 THEN a ELSE Gcd(b, a % b)

----------------------------------------------------------------------------
(* bignumber.js values: a finite decimal c * 10^-e, or Infinity, or NaN *)

Fin(c, e) == [kind |-> "fin", c |-> c, e |-> e]

\* new BigNumber(0.0025)
LP_HOLDERS_FEE == Fin(25, 4)

\* new BigNumber(52.1429)
WEEKS_IN_A_YEAR == Fin(521429, 4)

\* x.minus(y), exact
BNMinus(x, y) ==
  LET e == Max(x.e, y.e)
  IN Fin(x.c * Pow10(e - x.e) - y.c * Pow10(e - y.e), e)

\* x.times(y), exact
BNTimes(x, y) == Fin(x.c * y.c, x.e + y.e)

\* x.times(100), exact: the same value with the decimal point moved
BNTimes100(x) == IF x.e >= 2 THEN Fin(x.c, x.e - 2) ELSE Fin(x.c * 100, x.e)

\* x.gt(0)
BNGtZero(x) == x.kind = "fin" /\ x.c > 0

\* the first n decimal digits of rem / d (0 <= rem < d), by long division
RECURSIVE FracDigits(_, _, _)
FracDigits(rem, d, n) ==
  IF n = 0 THEN << >>
  ELSE << (rem * 10) \div d >> \o FracDigits((rem * 10) % d, d, n - 1)

\* a digit string plus one unit in its last place: <<carry out, digits>>
RECURSIVE DigitsPlusOne(_)
DigitsPlusOne(ds) ==
  IF Len(ds) = 0 THEN <<1, << >> >>
  ELSE LET last == ds[Len(ds)]
           init == SubSeq(ds, 1, Len(ds) - 1)
       IN IF last < 9 THEN <<0, init \o <<last + 1>> >>
          ELSE LET r == DigitsPlusOne(init) IN <<r[1], r[2] \o <<0>> >>

\* rounding mode 4 (ROUND_HALF_UP): an integer part and digits, rounded to
\* the first dp digits; the digit after them decides
RoundHalfUp(ip, ds, dp) ==
  LET kept == SubSeq(ds, 1, dp)
  IN IF ds[dp + 1] >= 5
       THEN LET r == DigitsPlusOne(kept) IN [ip |-> ip + r[1], ds |-> r[2]]
       ELSE [ip |-> ip, ds |-> kept]

\* the rounding bignumber.js applies (ROUNDING_MODE default 4)
Round(ip, ds, dp) == RoundHalfUp(ip, ds, dp)

\* x.dividedBy(y) for x > 0, y >= 0: Infinity when y = 0, otherwise the
\* quotient rounded to DECIMAL_PLACES digits; as integer part and digits
BNDividedBy(x, y) ==
  IF y.c = 0 THEN [inf |-> TRUE, ip |-> 0, ds |-> << >>]
  ELSE LET n == IF y.e >= x.e THEN x.c * Pow10(y.e - x.e) ELSE x.c
           d == IF x.e > y.e THEN y.c * Pow10(x.e - y.e) ELSE y.c
           raw == FracDigits(n % d, d, DECIMAL_PLACES + 1)
           r == Round(n \div d, raw, DECIMAL_PLACES)
       IN [inf |-> FALSE, ip |-> r.ip, ds |-> r.ds]

----------------------------------------------------------------------------
(* JavaScript numbers stored in the APR map *)

\* the number 0
Zero == [kind |-> "zero", a |-> 0, b |-> 0]
\* a positive number of hundredths
Hundredths(h) == IF h = 0 THEN Zero ELSE [kind |-> "dec2", a |-> h, b |-> 0]
NumInfinity == [kind |-> "Infinity", a |-> 0, b |-> 0]
NumNaN == [kind |-> "NaN", a |-> 0, b |-> 0]
\* the value of (cur / prev)^365 - 1, not evaluated further
Pow365(cur, prev) == [kind |-> "pow365", a |-> cur, b |-> prev]

\* q.decimalPlaces(2).toNumber() of a quotient
QuotientToNumber(q) ==
  IF q.inf THEN NumInfinity
  ELSE LET r == Round(q.ip, q.ds, NORMAL_DP)
       IN Hundredths(r.ip * 100 + r.ds[1] * 10 + r.ds[2])

----------------------------------------------------------------------------
(* Farm configurations (the per-chain configuration module) *)

\* an address string: <<identity, letter case>>
Address(i, cs) == <<i, cs>>
\* a stableSwapAddress field that is absent, or the empty string
Undefined == <<0, "undefined">>
EmptyString == <<0, "empty">>
\* truthiness of a string-or-undefined value
Truthy(s) == s[2] \in {"lower", "checksum"}

\* s.toLowerCase()
toLowerCase(s) == IF s[2] = "checksum" THEN <<s[1], "lower">> ELSE s

\* pid: null is << >>, a number n is <<n>>
PidNull == << >>

\* the i-th farm of the configuration family: mostly plain AMM farms, with
\* stable-swap farms, farms without pid and farms with an empty
\* stableSwapAddress interleaved; checksummed and lower-case addresses alternate
FarmAt(i) ==
  [ pid |-> IF i % 16 = 5 \/ i % 64 = 13 THEN PidNull ELSE <<i>>,
    lpAddress |-> Address(i, IF i % 2 = 0 THEN "checksum" ELSE "lower"),
    stableSwapAddress |->
      IF i % 64 \in {3, 11, 13} THEN Address(1000 + i, "checksum")
      ELSE IF i % 16 = 6 THEN EmptyString
      ELSE Undefined ]

\* configuration lists the module may export
ConfigSizes == {0, 3, 6, 14, MaxFarms}
ConfigOfSize(n) == [i \in 1..n |-> FarmAt(i)]
\* what import(`../packages/farms/constants/${chainId}`) finds: a module
\* exporting a farm list, or no module
ConfigModules ==
  {[exists |-> TRUE, farms |-> ConfigOfSize(n)] : n \in ConfigSizes}
    \cup {[exists |-> FALSE, farms |-> << >>]}

----------------------------------------------------------------------------
(* Sequence helpers *)

RECURSIVE SelectSeqBy(_, _)
\* elements of seq whose index i satisfies keep[i], in order
SelectSeqBy(seq, keep) ==
  IF Len(seq) = 0 THEN << >>
  ELSE LET n == Len(seq)
           front == SelectSeqBy(SubSeq(seq, 1, n - 1), keep)
       IN IF keep[n] THEN Append(front, seq[n]) ELSE front

Range(seq) == {seq[i] : i \in DOMAIN seq}

RECURSIVE SortedSeq(_)
\* the integers of a finite set in ascending order
SortedSeq(S) ==
  IF S = {} THEN << >>
  ELSE LET m == CHOOSE x \in S : \A y \in S : x <= y
       IN <<m>> \o SortedSeq(S \ {m})

\* {...a, ...b}
Merge(a, b) ==
  [k \in DOMAIN a \cup DOMAIN b |-> IF k \in DOMAIN b THEN b[k] ELSE a[k]]

EmptyMap == [k \in {} |-> Zero]

----------------------------------------------------------------------------
(* getFarmConfig's filter, the partition and the chunking *)

\* faulty variant: filter((f) => f.pid !== null) dropped
FilterPidKeepAll(farms) == farms
\* .default.filter((f) => f.pid !== null)
FilterPid(farms) ==
  SelectSeqBy(farms, [i \in DOMAIN farms |-> farms[i].pid # PidNull])

\* faulty variant: tests the presence of the field, not its truthiness
splitReducerByPresence(result, farm) ==
  IF farm.stableSwapAddress # Undefined
    THEN [normalFarms |-> result.normalFarms,
          stableFarms |-> Append(result.stableFarms, farm)]
    ELSE [stableFarms |-> result.stableFarms,
          normalFarms |-> Append(result.normalFarms, farm)]
splitNormalAndStableFarmsReducer(result, farm) ==
  IF Truthy(farm.stableSwapAddress)
    THEN [normalFarms |-> result.normalFarms,
          stableFarms |-> Append(result.stableFarms, farm)]
    ELSE [stableFarms |-> result.stableFarms,
          normalFarms |-> Append(result.normalFarms, farm)]

RECURSIVE ReduceSplit(_, _)
\* farmsConfig.reduce(splitNormalAndStableFarmsReducer, initial)
ReduceSplit(farms, initial) ==
  IF Len(farms) = 0 THEN initial
  ELSE splitNormalAndStableFarmsReducer(
         ReduceSplit(SubSeq(farms, 1, Len(farms) - 1), initial),
         farms[Len(farms)])

EmptySplit == [normalFarms |-> << >>, stableFarms |-> << >>]

RECURSIVE chunkDropTail(_, _)
\* faulty variant of chunk: drops a trailing group shorter than size
chunkDropTail(list, size) ==
  IF Len(list) < size THEN << >>
  ELSE <<SubSeq(list, 1, size)>> \o chunkDropTail(SubSeq(list, size + 1, Len(list)), size)
RECURSIVE chunk(_, _)
\* lodash chunk(list, size): consecutive groups of size, the last one shorter
chunk(list, size) ==
  IF Len(list) = 0 THEN << >>
  ELSE IF Len(list) <= size THEN <<list>>
  ELSE <<SubSeq(list, 1, size)>> \o chunk(SubSeq(list, size + 1, Len(list)), size)

\* normalFarms.map((farm) => farm.lpAddress.toLowerCase())
LowerCaseAddresses(normalFarms) ==
  [i \in DOMAIN normalFarms |-> toLowerCase(normalFarms[i].lpAddress)]

----------------------------------------------------------------------------
(* The pairs subgraph *)

Absent == [present |-> FALSE, volumeUSD |-> Fin(0, 0), reserveUSD |-> Fin(0, 0)]
Snapshot(v, r) == [present |-> TRUE, volumeUSD |-> v, reserveUSD |-> r]

\* the histories a pair may have: its snapshot at the latest block and at
\* the week-ago block
NumScenarios == 9
Scenario(k) ==
  CASE k = 0 -> [latest |-> Snapshot(Fin(150, 0), Fin(200, 0)),
                 weekAgo |-> Snapshot(Fin(50, 0), Fin(180, 0))]
    [] k = 1 -> [latest |-> Snapshot(Fin(150, 0), Fin(200, 0)), weekAgo |-> Absent]
    [] k = 2 -> [latest |-> Snapshot(Fin(50, 0), Fin(200, 0)),
                 weekAgo |-> Snapshot(Fin(50, 0), Fin(200, 0))]
    [] k = 3 -> [latest |-> Snapshot(Fin(40, 0), Fin(200, 0)),
                 weekAgo |-> Snapshot(Fin(50, 0), Fin(200, 0))]
    [] k = 4 -> [latest |-> Absent, weekAgo |-> Snapshot(Fin(50, 0), Fin(200, 0))]
    [] k = 5 -> [latest |-> Absent, weekAgo |-> Absent]
    [] k = 6 -> [latest |-> Snapshot(Fin(60, 0), Fin(0, 0)),
                 weekAgo |-> Snapshot(Fin(50, 0), Fin(30, 0))]
    [] k = 7 -> [latest |-> Snapshot(Fin(2, 0), Fin(1042858, 4)),
                 weekAgo |-> Snapshot(Fin(1, 0), Fin(1000000, 4))]
    [] OTHER -> [latest |-> Snapshot(Fin(35, 1), Fin(10, 0)),
                 weekAgo |-> Snapshot(Fin(25, 1), Fin(10, 0))]

\* the pair with identity i under subgraph state shift
PairHistory(i, shift) == Scenario((i + shift) % NumScenarios)
PairAt(i, shift, when) ==
  IF when = "latest" THEN PairHistory(i, shift).latest
  ELSE PairHistory(i, shift).weekAgo

Take(seq, n) == IF Len(seq) <= n THEN seq ELSE SubSeq(seq, 1, n)

\* pairs(first: first, where: { id_in: addresses }, block): the pairs whose
\* (lower-case) id is among addresses, in id order, at most first of them
Pairs(first, addresses, shift, when) ==
  LET ids == {a[1] : a \in {b \in Range(addresses) : b[2] = "lower"}}
      found == {i \in ids : PairAt(i, shift, when).present}
      order == Take(SortedSeq(found), first)
  IN [n \in DOMAIN order |->
        [id |-> Address(order[n], "lower"),
         volumeUSD |-> PairAt(order[n], shift, when).volumeUSD,
         reserveUSD |-> PairAt(order[n], shift, when).reserveUSD]]

----------------------------------------------------------------------------
(* getAprsForFarmGroup: the APR of each pair of the latest snapshot *)

\* farmsOneWeekAgo.find((oldFarm) => oldFarm.id === farm.id): index or 0
FindWeekAgo(farmsOneWeekAgo, id) ==
  IF \E n \in DOMAIN farmsOneWeekAgo : farmsOneWeekAgo[n].id = id
    THEN CHOOSE n \in DOMAIN farmsOneWeekAgo :
           /\ farmsOneWeekAgo[n].id = id
           /\ \A m \in 1..(n - 1) : farmsOneWeekAgo[m].id # id
    ELSE 0

\* faulty variant: the subtraction of the volumes the wrong way round
LpAprSwapped(farm, farmWeekAgo) ==
  LET volume7d == BNMinus(farmWeekAgo.volumeUSD, farm.volumeUSD)
      lpFeesInAYear == BNTimes(BNTimes(volume7d, LP_HOLDERS_FEE), WEEKS_IN_A_YEAR)
  IN IF BNGtZero(lpFeesInAYear)
       THEN QuotientToNumber(BNDividedBy(BNTimes100(lpFeesInAYear), farm.reserveUSD))
       ELSE Zero
\* the body of `if (farmWeekAgo) { ... }` followed by decimalPlaces(2).toNumber()
LpApr(farm, farmWeekAgo) ==
  LET volume7d == BNMinus(farm.volumeUSD, farmWeekAgo.volumeUSD)
      lpFees7d == BNTimes(volume7d, LP_HOLDERS_FEE)
      lpFeesInAYear == BNTimes(lpFees7d, WEEKS_IN_A_YEAR)
  IN IF BNGtZero(lpFeesInAYear)
       THEN QuotientToNumber(BNDividedBy(BNTimes100(lpFeesInAYear), farm.reserveUSD))
       ELSE Zero

RECURSIVE ReduceAprs(_, _)
\* farmsAtLatestBlock.reduce((aprMap, farm) => ({...aprMap, [farm.id]: apr}), {})
ReduceAprs(farmsAtLatestBlock, farmsOneWeekAgo) ==
  IF Len(farmsAtLatestBlock) = 0 THEN EmptyMap
  ELSE LET n == Len(farmsAtLatestBlock)
           farm == farmsAtLatestBlock[n]
           w == FindWeekAgo(farmsOneWeekAgo, farm.id)
           apr == IF w # 0 THEN LpApr(farm, farmsOneWeekAgo[w]) ELSE Zero
       IN Merge(ReduceAprs(SubSeq(farmsAtLatestBlock, 1, n - 1), farmsOneWeekAgo),
                [k \in {farm.id} |-> apr])

\* faulty variant: every requested address gets a key, 0 unless computed
getAprsForFarmGroupZeroFill(addresses, shift) ==
  Merge([k \in Range(addresses) |-> Zero],
        ReduceAprs(Pairs(QUERY_FIRST, addresses, shift, "latest"),
                   Pairs(QUERY_FIRST, addresses, shift, "weekAgo")))
\* the map getAprsForFarmGroup resolves to when its request succeeds
getAprsForFarmGroup(addresses, shift) ==
  ReduceAprs(Pairs(QUERY_FIRST, addresses, shift, "latest"),
             Pairs(QUERY_FIRST, addresses, shift, "weekAgo"))

----------------------------------------------------------------------------
(* getAprsForStableFarm: the value it resolves to *)

\* virtual prices the stable-swap subgraph may report, in hundredths;
\* NoPrice: the pairs list came back empty, so [0]?.virtualPrice is undefined
NoPrice == 0
VirtualPrices == {NoPrice, 101, 102}

\* faulty variant: the catch block falling through to a NaN result
StableFailureAprNaN == NumNaN
\* `return new BigNumber('0')` after the catch block, as the caller stores it
StableFailureApr == Zero

\* current.div(prev).pow(365).minus(1), then decimalPlaces(5).toNumber() in
\* the caller; new BigNumber(undefined) is NaN and NaN propagates
StableApr(virtualPrice, preVirtualPrice) ==
  IF virtualPrice = NoPrice \/ preVirtualPrice = NoPrice THEN NumNaN
  ELSE IF virtualPrice = preVirtualPrice THEN Zero
  ELSE Pow365(virtualPrice, preVirtualPrice)

----------------------------------------------------------------------------
(* JSON.stringify and the output file *)

JsonNull == [kind |-> "null", a |-> 0, b |-> 0]
\* JSON.stringify of a number: NaN and Infinity are written as null
JsonNumber(v) == IF v.kind \in {"NaN", "Infinity"} THEN JsonNull ELSE v
\* JSON.stringify(allAprs, null, 2) + os.EOL
JSONstringify(aprs) == [k \in DOMAIN aprs |-> JsonNumber(aprs[k])]

NoFile == [state |-> "absent", json |-> EmptyMap]
JsonFile(json) == [state |-> "json", json |-> json]
TruncatedFile == [state |-> "truncated", json |-> EmptyMap]
\* what an earlier run may have left at the output path
StaleJson ==
  [k \in {Address(1, "lower"), Address(99, "lower")} |-> Hundredths(777)]
PriorFiles == {NoFile, JsonFile(StaleJson)}

\* faulty variant: the new data merged over the keys the file had
WrittenFileMerged(old, data) == JsonFile(Merge(old.json, data))
\* a completed fs.writeFile(path, data, callback): the default flag 'w'
\* creates or truncates the file, which then holds data alone
WrittenFile(old, data) == JsonFile(data)

----------------------------------------------------------------------------
(* State *)

VARIABLES
  configModule,      \* environment: the chain's configuration module
  hasBlockClient,    \* environment: BLOCKS_CLIENT_WITH_CHAIN[chainId] is set
  sgShift,           \* environment: the state of the pairs subgraph
  file,              \* the output file apps/web/src/config/constants/lpAprs/<chainId>.json
  logged,            \* module variable `logged`
  logCount,          \* number of 'Cannot get farm config' lines on the console
  failedLoads,       \* number of getFarmConfig calls whose import failed
  extraLoads,        \* number of getFarmConfig calls made by importers
  callReturned,      \* the promise of fetchAndUpdateLPsAPR() has resolved
  pc,                \* position of the chain's task
  loadFailed,        \* the task's own getFarmConfig call failed
  farmsConfig, normalFarms, stableFarms, addressesInGroups,
  blockWeekAgo,
  allAprs,           \* local variable allAprs
  merged,            \* number of groups whose response has been merged
  batchRequests,     \* group indices requested so far, in request order
  blockWeekCalls,    \* week-ago block requests sent so far
  stable,            \* one record per stable farm: its lookup
  outstanding,       \* network requests in flight
  writeArg,          \* the data handed to fs.writeFile
  writeCalls,        \* number of fs.writeFile calls
  failed,            \* the requests that failed
  priorFile,         \* the output file as the process found it
  abortCause         \* why the task rejected

envVars == <<configModule, hasBlockClient, sgShift, priorFile>>
logVars == <<logged, logCount, failedLoads, extraLoads>>
cfgVars == <<farmsConfig, normalFarms, stableFarms, addressesInGroups, loadFailed>>
vars == <<configModule, hasBlockClient, sgShift, file, logged, logCount,
          failedLoads, extraLoads, callReturned, pc, loadFailed, farmsConfig,
          normalFarms, stableFarms, addressesInGroups, blockWeekAgo, allAprs,
          merged, batchRequests, blockWeekCalls, stable, outstanding, writeArg,
          writeCalls, failed, priorFile, abortCause>>

Req(kind, n) == [kind |-> kind, n |-> n]

\* the block number the blocks subgraph reports for a timestamp
WeekAgoBlock == 7
NoBlock == 0

Init ==
  /\ configModule \in ConfigModules
  /\ hasBlockClient \in BOOLEAN
  /\ sgShift \in 0..(NumScenarios - 1)
  /\ file \in PriorFiles
  /\ logged = FALSE
  /\ logCount = 0
  /\ failedLoads = 0
  /\ extraLoads = 0
  /\ callReturned = FALSE
  /\ pc = "start"
  /\ loadFailed = FALSE
  /\ farmsConfig = << >>
  /\ normalFarms = << >>
  /\ stableFarms = << >>
  /\ addressesInGroups = << >>
  /\ blockWeekAgo = NoBlock
  /\ allAprs = EmptyMap
  /\ merged = 0
  /\ batchRequests = << >>
  /\ blockWeekCalls = 0
  /\ stable = << >>
  /\ outstanding = {}
  /\ writeArg = EmptyMap
  /\ writeCalls = 0
  /\ failed = {}
  /\ priorFile = file
  /\ abortCause = "none"

----------------------------------------------------------------------------
(* Decisions of the control flow *)

\* getFarmConfig: `catch (error) { ...; return [] }`
getFarmConfigCatch == "empty"

\* faulty variant: a console.error not guarded by the flag
ShouldLogAlways(flag) == TRUE
\* `if (!logged)`
ShouldLog(flag) == ~flag

\* faulty variant: a failed batch request answered with an empty map
getAprsForFarmGroupCatchSwallow == "empty"
\* getAprsForFarmGroup: `catch (error) { throw new Error(...) }`
getAprsForFarmGroupCatch == "throw"

\* getBlockAtTimestamp: `catch (error) { throw new Error(...) }`
getBlockAtTimestampCatch == "throw"

\* faulty variant: the call's promise is still pending while the tasks run
CallResolvesAtOnceJoined == FALSE
\* `Promise.all(...)` is neither awaited nor returned: the async function
\* fetchAndUpdateLPsAPR has no await, so its promise resolves as soon as the
\* tasks have been started
CallResolvesAtOnce == TRUE

\* faulty variant: the groups already requested are requested again
NotYetRequestedRetry(candidates, requested) == candidates
\* the for-of iterator visits every group once: of the groups due, those not
\* requested before
NotYetRequested(candidates, requested) == candidates \ Range(requested)

\* faulty variant: all groups requested at once (a Promise.all over the groups)
BatchesToRequestAll(groups, m) == DOMAIN groups
\* `for (const groupOfAddresses of addressesInGroups) { await ... }`: with m
\* groups merged, the groups that have been requested are 1..m+1
BatchesToRequest(groups, m) == {k \in DOMAIN groups : k <= m + 1}

\* the stable stage follows the loop: every group has been merged
StableMayStart(groups, m) == m >= Len(groups)

\* `await Promise.all(stableFarms.map(...))` resolves
StableAllSettled(st) == \A i \in DOMAIN st : st[i].pc = "done"

\* stableAprs.reduce((result, apr, index) =>
\*   ({...result, [stableFarms[index].lpAddress]: apr.decimalPlaces(5).toNumber()}), {})
StableAprsMap(farms, st) ==
  [k \in {farms[i].lpAddress : i \in DOMAIN farms} |->
     LET last == CHOOSE i \in DOMAIN farms :
                   /\ farms[i].lpAddress = k
                   /\ \A j \in DOMAIN farms : farms[j].lpAddress = k => j <= i
     IN st[last].apr]

\* the lookup of one stable farm: where it is, what it resolved to, what its
\* requests were answered ("pending", "failed", "nodata", "prices") and how
\* many requests it has sent
Lookup(p, apr, answer, blockCalls, priceCalls) ==
  [pc |-> p, apr |-> apr, answer |-> answer,
   blockCalls |-> blockCalls, priceCalls |-> priceCalls]

----------------------------------------------------------------------------
(* Steps of the chain's task *)

Reject(cause) ==
  /\ pc' = "rejected"
  /\ abortCause' = cause
  /\ outstanding' = {}

\* fs.writeFile(path, JSON.stringify(allAprs, null, 2) + os.EOL, callback)
IssueWrite(aprs) ==
  /\ allAprs' = aprs
  /\ writeArg' = JSONstringify(aprs)
  /\ writeCalls' = writeCalls + 1
  /\ pc' = "write"

\* lines 185-210 once the loop is over: start every stable lookup (each runs
\* up to its day-ago block request), or write at once without stable farms
AfterLoop(aprs, rest) ==
  IF Len(stableFarms) > 0
    THEN /\ stable' = [i \in DOMAIN stableFarms |-> Lookup("block", Zero, "pending", 1, 0)]
         /\ outstanding' = rest \cup {Req("stableBlock", i) : i \in DOMAIN stableFarms}
         /\ pc' = "stable"
         /\ allAprs' = aprs
         /\ UNCHANGED <<writeArg, writeCalls>>
    ELSE /\ IssueWrite(aprs)
         /\ outstanding' = rest
         /\ UNCHANGED stable

\* lines 177-183 with m groups merged into aprs: request what the loop
\* requests next, or leave the loop
AfterMerge(aprs, m, rest) ==
  /\ merged' = m
  /\ LET new == NotYetRequested(BatchesToRequest(addressesInGroups, m), batchRequests)
     IN /\ batchRequests' = batchRequests \o SortedSeq(new)
        /\ IF StableMayStart(addressesInGroups, m)
             THEN AfterLoop(aprs, rest \cup {Req("batch", k) : k \in new})
             ELSE /\ pc' = "batch"
                  /\ outstanding' = rest \cup {Req("batch", k) : k \in new}
                  /\ allAprs' = aprs
                  /\ UNCHANGED <<stable, writeArg, writeCalls>>

\* line 230: the module calls fetchAndUpdateLPsAPR(); the task runs up to the
\* dynamic import inside getFarmConfig, and the call returns without awaiting
\* the Promise.all it created
Call ==
  /\ pc = "start"
  /\ pc' = "import"
  /\ callReturned' = CallResolvesAtOnce
  /\ UNCHANGED <<envVars, file, logVars, cfgVars, blockWeekAgo, allAprs, merged,
                 batchRequests, blockWeekCalls, stable, outstanding, writeArg,
                 writeCalls, failed, abortCause>>

\* lines 164-175: getFarmConfig settles, the farms are split, the addresses
\* lower-cased and chunked, and the week-ago block is requested
GetFarmConfigSettled ==
  /\ pc = "import"
  /\ LET ok == configModule.exists
         farms == IF ok THEN FilterPid(configModule.farms) ELSE << >>
         split == ReduceSplit(farms, EmptySplit)
     IN /\ farmsConfig' = farms
        /\ normalFarms' = split.normalFarms
        /\ stableFarms' = split.stableFarms
        /\ addressesInGroups' = chunk(LowerCaseAddresses(split.normalFarms), CHUNK_SIZE)
        /\ loadFailed' = ~ok
        /\ failedLoads' = IF ok THEN failedLoads ELSE failedLoads + 1
        /\ logCount' = IF ~ok /\ ShouldLog(logged) THEN logCount + 1 ELSE logCount
        /\ logged' = (logged \/ ~ok)
        /\ IF ~ok /\ getFarmConfigCatch = "throw"
             THEN Reject("config") /\ UNCHANGED <<blockWeekCalls, failed>>
             ELSE IF hasBlockClient
               THEN /\ pc' = "blockWeek"
                    /\ outstanding' = {Req("blockWeek", 0)}
                    /\ blockWeekCalls' = blockWeekCalls + 1
                    /\ UNCHANGED <<abortCause, failed>>
               ELSE /\ Reject("blockWeek")
                    /\ failed' = failed \cup {Req("blockWeek", 0)}
                    /\ UNCHANGED blockWeekCalls
  /\ UNCHANGED <<envVars, file, extraLoads, callReturned, blockWeekAgo, allAprs,
                 merged, batchRequests, stable, writeArg, writeCalls>>

\* an importer of the module calls the exported getFarmConfig for some chain
ExternalGetFarmConfig ==
  /\ pc \notin {"start", "rejected", "writeThrown"}
  /\ extraLoads < MaxExtraLoads
  /\ extraLoads' = extraLoads + 1
  /\ \E ok \in BOOLEAN :
       /\ failedLoads' = IF ok THEN failedLoads ELSE failedLoads + 1
       /\ logCount' = IF ~ok /\ ShouldLog(logged) THEN logCount + 1 ELSE logCount
       /\ logged' = (logged \/ ~ok)
  /\ UNCHANGED <<envVars, file, callReturned, pc, cfgVars, blockWeekAgo, allAprs,
                 merged, batchRequests, blockWeekCalls, stable, outstanding,
                 writeArg, writeCalls, failed, abortCause>>

\* line 175: the blocks subgraph answers with a block
BlockWeekResolved ==
  /\ pc = "blockWeek"
  /\ Req("blockWeek", 0) \in outstanding
  /\ blockWeekAgo' = WeekAgoBlock
  /\ AfterMerge(EmptyMap, 0, outstanding \ {Req("blockWeek", 0)})
  /\ UNCHANGED <<envVars, file, logVars, callReturned, cfgVars, blockWeekCalls,
                 failed, abortCause>>

\* lines 51-53: the request fails or returns no block
BlockWeekFailed ==
  /\ pc = "blockWeek"
  /\ Req("blockWeek", 0) \in outstanding
  /\ failed' = failed \cup {Req("blockWeek", 0)}
  /\ IF getBlockAtTimestampCatch = "throw"
       THEN /\ Reject("blockWeek")
            /\ UNCHANGED <<blockWeekAgo, allAprs, merged, batchRequests, stable,
                           writeArg, writeCalls>>
       ELSE /\ blockWeekAgo' = NoBlock
            /\ AfterMerge(EmptyMap, 0, outstanding \ {Req("blockWeek", 0)})
            /\ UNCHANGED abortCause
  /\ UNCHANGED <<envVars, file, logVars, callReturned, cfgVars, blockWeekCalls>>

\* lines 181-182: the response of group k arrives and is merged
BatchResponded(k) ==
  /\ pc = "batch"
  /\ Req("batch", k) \in outstanding
  /\ AfterMerge(Merge(allAprs, getAprsForFarmGroup(addressesInGroups[k], sgShift)),
                merged + 1, outstanding \ {Req("batch", k)})
  /\ UNCHANGED <<envVars, file, logVars, callReturned, cfgVars, blockWeekAgo,
                 blockWeekCalls, failed, abortCause>>

\* lines 95-97: the request of group k fails
BatchFailed(k) ==
  /\ pc = "batch"
  /\ Req("batch", k) \in outstanding
  /\ failed' = failed \cup {Req("batch", k)}
  /\ IF getAprsForFarmGroupCatch = "throw"
       THEN /\ Reject("batch")
            /\ UNCHANGED <<allAprs, merged, batchRequests, stable, writeArg, writeCalls>>
       ELSE /\ AfterMerge(allAprs, merged + 1, outstanding \ {Req("batch", k)})
            /\ UNCHANGED abortCause
  /\ UNCHANGED <<envVars, file, logVars, callReturned, cfgVars, blockWeekAgo,
                 blockWeekCalls>>

\* a stable lookup settles with apr; when Promise.all resolves (lines 187-197)
\* the stable map is merged over allAprs and the file write is issued
SettleStable(i, apr, answer, rest) ==
  LET st == [stable EXCEPT ![i] = Lookup("done", apr, answer, @.blockCalls, @.priceCalls)]
  IN /\ stable' = st
     /\ outstanding' = rest
     /\ IF pc = "stable" /\ StableAllSettled(st)
          THEN IssueWrite(Merge(allAprs, StableAprsMap(stableFarms, st)))
          ELSE UNCHANGED <<pc, allAprs, writeArg, writeCalls>>

\* line 113: the day-ago block of stable farm i is resolved; line 115: the
\* virtual prices are requested
StableBlockResolved(i) ==
  /\ i \in DOMAIN stable
  /\ Req("stableBlock", i) \in outstanding
  /\ stable' = [stable EXCEPT ![i] = Lookup("price", Zero, "pending", @.blockCalls, @.priceCalls + 1)]
  /\ outstanding' = (outstanding \ {Req("stableBlock", i)}) \cup {Req("stablePrice", i)}
  /\ UNCHANGED <<envVars, file, logVars, callReturned, pc, cfgVars, blockWeekAgo,
                 allAprs, merged, batchRequests, blockWeekCalls, writeArg,
                 writeCalls, failed, abortCause>>

\* lines 136-140: the day-ago block resolution of stable farm i fails
StableBlockFailed(i) ==
  /\ i \in DOMAIN stable
  /\ Req("stableBlock", i) \in outstanding
  /\ failed' = failed \cup {Req("stableBlock", i)}
  /\ SettleStable(i, StableFailureApr, "failed", outstanding \ {Req("stableBlock", i)})
  /\ UNCHANGED <<envVars, file, logVars, callReturned, cfgVars, blockWeekAgo,
                 merged, batchRequests, blockWeekCalls, abortCause>>

\* lines 129-135: the stable-swap subgraph answers for stable farm i
StablePriceResponded(i) ==
  /\ i \in DOMAIN stable
  /\ Req("stablePrice", i) \in outstanding
  /\ \E virtualPrice \in VirtualPrices, preVirtualPrice \in VirtualPrices :
       SettleStable(i, StableApr(virtualPrice, preVirtualPrice),
                    IF NoPrice \in {virtualPrice, preVirtualPrice} THEN "nodata" ELSE "prices",
                    outstanding \ {Req("stablePrice", i)})
  /\ UNCHANGED <<envVars, file, logVars, callReturned, cfgVars, blockWeekAgo,
                 merged, batchRequests, blockWeekCalls, failed, abortCause>>

\* lines 136-140: the virtual-price request of stable farm i fails
StablePriceFailed(i) ==
  /\ i \in DOMAIN stable
  /\ Req("stablePrice", i) \in outstanding
  /\ failed' = failed \cup {Req("stablePrice", i)}
  /\ SettleStable(i, StableFailureApr, "failed", outstanding \ {Req("stablePrice", i)})
  /\ UNCHANGED <<envVars, file, logVars, callReturned, cfgVars, blockWeekAgo,
                 merged, batchRequests, blockWeekCalls, abortCause>>

\* lines 206-209: the write succeeded and replaced the file's contents
WriteSucceeded ==
  /\ pc = "write"
  /\ file' = WrittenFile(file, writeArg)
  /\ pc' = "done"
  /\ UNCHANGED <<envVars, logVars, callReturned, cfgVars, blockWeekAgo, allAprs,
                 merged, batchRequests, blockWeekCalls, stable, outstanding,
                 writeArg, writeCalls, failed, abortCause>>

\* line 207: the write failed and the callback throws; the file could not be
\* opened (unchanged) or was opened and truncated
WriteFailed ==
  /\ pc = "write"
  /\ file' \in {file, TruncatedFile}
  /\ pc' = "writeThrown"
  /\ UNCHANGED <<envVars, logVars, callReturned, cfgVars, blockWeekAgo, allAprs,
                 merged, batchRequests, blockWeekCalls, stable, outstanding,
                 writeArg, writeCalls, failed, abortCause>>

\* upper limits of the group and stable-farm indices
MaxGroups == (MaxFarms \div CHUNK_SIZE) + 1

Next ==
  \/ Call
  \/ GetFarmConfigSettled
  \/ ExternalGetFarmConfig
  \/ BlockWeekResolved
  \/ BlockWeekFailed
  \/ \E k \in 1..MaxGroups : BatchResponded(k)
  \/ \E k \in 1..MaxGroups : BatchFailed(k)
  \/ \E i \in 1..MaxFarms : StableBlockResolved(i)
  \/ \E i \in 1..MaxFarms : StableBlockFailed(i)
  \/ \E i \in 1..MaxFarms : StablePriceResponded(i)
  \/ \E i \in 1..MaxFarms : StablePriceFailed(i)
  \/ WriteSucceeded
  \/ WriteFailed

Spec == Init /\ [][Next]_vars

----------------------------------------------------------------------------
(* Reference arithmetic for the properties: exact fractions n / d *)

RatOfDecimal(x) ==
  LET g == Gcd(x.c, Pow10(x.e)) IN [n |-> x.c \div g, d |-> Pow10(x.e) \div g]

\* product of two fractions with positive numerators, cancelling first
RatTimes(x, y) ==
  LET g1 == Gcd(x.n, y.d)
      g2 == Gcd(y.n, x.d)
  IN [n |-> (x.n \div g1) * (y.n \div g2), d |-> (x.d \div g2) * (y.d \div g1)]

RatOver(x, y) == RatTimes(x, [n |-> y.d, d |-> y.n])

\* volumeUSD_latest - volumeUSD_weekAgo, as an integer times 10^-e
VolumeDelta(h) ==
  LET e == Max(h.latest.volumeUSD.e, h.weekAgo.volumeUSD.e)
  IN Fin(h.latest.volumeUSD.c * Pow10(e - h.latest.volumeUSD.e)
           - h.weekAgo.volumeUSD.c * Pow10(e - h.weekAgo.volumeUSD.e), e)

\* (volume delta) * 0.0025 * 52.1429 * 100 / reserveUSD_latest, in hundredths,
\* for a positive volume delta; its denominator is 0 when the reserve is 0
ReferenceAprHundredths(h) ==
  RatOver(RatTimes(RatTimes(RatTimes(RatOfDecimal(VolumeDelta(h)), [n |-> 1, d |-> 400]),
                            [n |-> 521429, d |-> 10000]),
                   [n |-> 10000, d |-> 1]),
          RatOfDecimal(h.latest.reserveUSD))

\* v is the number k / 100 and k is q rounded half-up to an integer
IsHalfUpOf(v, q) ==
  /\ v.kind \in {"zero", "dec2"}
  /\ (2 * v.a - 1) * q.d <= 2 * q.n
  /\ 2 * q.n < (2 * v.a + 1) * q.d

\* the addresses whose group has been merged
MergedAddresses ==
  UNION {Range(addressesInGroups[g]) : g \in 1..merged}
\* the addresses that will be requested
NormalAddresses == Range(LowerCaseAddresses(normalFarms))
StableKeys == {stableFarms[i].lpAddress : i \in DOMAIN stableFarms}

InBothWithFees(k) ==
  LET h == PairHistory(k[1], sgShift)
  IN h.latest.present /\ h.weekAgo.present /\ VolumeDelta(h).c > 0

----------------------------------------------------------------------------
(* Properties *)

\* C1: for every farm returned in both snapshots whose annualized fees are
\* positive, the APR stored under its id is the number
\* lpFeesYear * 100 / reserveUSD_latest rounded half-up to 2 decimal places.
C1_AprIsReferenceRounding ==
  \A k \in MergedAddresses :
    InBothWithFees(k) =>
      /\ k \in DOMAIN allAprs
      /\ IsHalfUpOf(allAprs[k], ReferenceAprHundredths(PairHistory(k[1], sgShift)))

\* The same for the farms whose latest reserveUSD is not zero: there the
\* quotient exists and the stored APR is its half-up rounding.
AprIsReferenceRoundingOfLiquidPairs ==
  \A k \in MergedAddresses :
    (InBothWithFees(k) /\ PairHistory(k[1], sgShift).latest.reserveUSD.c # 0) =>
      /\ k \in DOMAIN allAprs
      /\ IsHalfUpOf(allAprs[k], ReferenceAprHundredths(PairHistory(k[1], sgShift)))

\* a farm with positive fees and an exact half has been rounded up to 0.13
LiquidPairRounded ==
  \E k \in MergedAddresses :
    /\ InBothWithFees(k)
    /\ ReferenceAprHundredths(PairHistory(k[1], sgShift)) = [n |-> 25, d |-> 2]
    /\ allAprs[k] = Hundredths(13)

\* C2: a farm returned in the latest snapshot that is absent from the week-ago
\* snapshot, or whose 7-day volume delta is zero or negative, has its key in
\* the result with APR exactly 0.
C2_NoFeesMeansZero ==
  \A k \in MergedAddresses :
    LET h == PairHistory(k[1], sgShift)
    IN (h.latest.present /\ (~h.weekAgo.present \/ VolumeDelta(h).c <= 0)) =>
         (k \in DOMAIN allAprs /\ allAprs[k] = Zero)

\* a too-new farm, a farm with zero delta and one with a negative delta have
\* all been merged
C2_Witness ==
  /\ \E k \in MergedAddresses :
       PairHistory(k[1], sgShift).latest.present /\ ~PairHistory(k[1], sgShift).weekAgo.present
  /\ \E k \in MergedAddresses :
       InBothWithFees(k) = FALSE /\ PairHistory(k[1], sgShift).latest.present
         /\ PairHistory(k[1], sgShift).weekAgo.present
         /\ VolumeDelta(PairHistory(k[1], sgShift)).c < 0
  /\ \E k \in MergedAddresses :
       PairHistory(k[1], sgShift).latest.present
         /\ PairHistory(k[1], sgShift).weekAgo.present
         /\ VolumeDelta(PairHistory(k[1], sgShift)).c = 0

\* the APR map of all the addresses in one call that is not limited to 30 rows
UnboundedAprs(addresses, shift) ==
  ReduceAprs(Pairs(Len(addresses), addresses, shift, "latest"),
             Pairs(Len(addresses), addresses, shift, "weekAgo"))

LoopIsOver == pc \in {"stable", "write", "done", "writeThrown"}

\* C3: the maps of the groups of at most 30 addresses, merged, are the map
\* one unbounded call for all the addresses gives.
C3_ChunkedEqualsUnbounded ==
  LoopIsOver =>
    [k \in DOMAIN allAprs \ StableKeys |-> allAprs[k]]
      = UnboundedAprs(LowerCaseAddresses(normalFarms), sgShift)

\* more than 30 addresses, in two groups, have been merged
C3_Witness ==
  /\ LoopIsOver
  /\ Len(normalFarms) > CHUNK_SIZE
  /\ Len(addressesInGroups) = 2
  /\ merged = 2
  /\ Cardinality(DOMAIN allAprs \ StableKeys) > 1

\* C4: the reduction puts every farm in exactly one group, a farm in
\* stableFarms exactly if its stableSwapAddress is non-empty, and keeps the
\* order of the input inside each group.
C4_PartitionByStableSwapAddress ==
  pc \notin {"start", "import"} =>
    /\ stableFarms = SelectSeqBy(farmsConfig,
         [i \in DOMAIN farmsConfig |-> farmsConfig[i].stableSwapAddress \notin {Undefined, EmptyString}])
    /\ normalFarms = SelectSeqBy(farmsConfig,
         [i \in DOMAIN farmsConfig |-> farmsConfig[i].stableSwapAddress \in {Undefined, EmptyString}])
    /\ \A i \in DOMAIN farmsConfig :
         (farmsConfig[i] \in Range(normalFarms)) # (farmsConfig[i] \in Range(stableFarms))

\* a list with stable farms, plain farms and a farm whose stableSwapAddress is
\* the empty string has been split
C4_Witness ==
  /\ pc \notin {"start", "import"}
  /\ Len(stableFarms) >= 2
  /\ \E i \in DOMAIN normalFarms : normalFarms[i].stableSwapAddress = EmptyString
  /\ \E i \in DOMAIN normalFarms : normalFarms[i].stableSwapAddress = Undefined

\* the farms of the configuration module with the address of key k
FarmsWithAddress(k) ==
  {i \in DOMAIN configModule.farms : toLowerCase(configModule.farms[i].lpAddress) = toLowerCase(k)}

WriteIssued == pc \in {"write", "done", "writeThrown"}

FailedLookups == {i \in DOMAIN stable : stable[i].answer = "failed"}

\* C6: a stable farm whose day-ago block resolution or virtual-price request
\* fails resolves to 0 and nothing is propagated; every stable farm's own
\* result and every normal APR computed by the loop are in the map that is
\* written, and the write is issued once all lookups have settled.
C6_StableFailureIsZero ==
  /\ \A i \in FailedLookups : stable[i].pc = "done" /\ stable[i].apr = Zero
  /\ FailedLookups # {} => pc # "rejected"
  /\ (stable # << >> /\ StableAllSettled(stable)) => WriteIssued
  /\ (WriteIssued /\ FailedLookups # {}) =>
       /\ \A i \in DOMAIN stable :
            /\ allAprs[stableFarms[i].lpAddress] = stable[i].apr
            /\ writeArg[stableFarms[i].lpAddress] = JsonNumber(stable[i].apr)
       /\ \A g \in DOMAIN addressesInGroups :
            LET aprs == getAprsForFarmGroup(addressesInGroups[g], sgShift)
            IN \A k \in DOMAIN aprs : writeArg[k] = JsonNumber(aprs[k])

\* the file has been written although one stable lookup failed; it holds the
\* 0 of the failed farm, the APR of another stable farm and a normal APR
C6_Witness ==
  /\ pc = "done"
  /\ \E i \in FailedLookups, j \in DOMAIN stable :
       /\ file.json[stableFarms[i].lpAddress] = Zero
       /\ stable[j].answer = "prices"
       /\ file.json[stableFarms[j].lpAddress].kind = "pow365"
  /\ \E k \in NormalAddresses : k \in DOMAIN file.json /\ file.json[k].kind = "dec2"

\* C7: when the stable-swap subgraph answers without price data for a stable
\* farm, getAprsForStableFarm returns 0 and the number 0 is written under the
\* farm's lpAddress.
C7_NoPriceDataIsZero ==
  \A i \in DOMAIN stable :
    stable[i].answer = "nodata" =>
      /\ stable[i].apr = Zero
      /\ WriteIssued => writeArg[stableFarms[i].lpAddress] = Zero

FatalFailure ==
  Req("blockWeek", 0) \in failed \/ \E k \in DOMAIN addressesInGroups : Req("batch", k) \in failed

\* C8: when the week-ago block resolution or a normal-farm batch request
\* fails, the task rejects: no later batch is requested, no stable lookup is
\* started, no write is issued and the file stays as it was.
C8_FatalFailureAborts ==
  FatalFailure =>
    /\ pc = "rejected"
    /\ outstanding = {}
    /\ stable = << >>
    /\ writeCalls = 0
    /\ file = priorFile
    /\ Req("blockWeek", 0) \in failed => batchRequests = << >>
    /\ \A k \in DOMAIN addressesInGroups :
         Req("batch", k) \in failed => \A j \in Range(batchRequests) : j <= k

\* the first of two batches failed, with stable farms configured
C8_Witness ==
  /\ Req("batch", 1) \in failed
  /\ Len(addressesInGroups) = 2
  /\ Len(stableFarms) > 0
  /\ pc = "rejected"

\* C9 as stated: after a failed configuration load the farm list is empty, the
\* run does not fail and an empty map is written; the error is logged at most
\* once.
C9_LoadFailureNeverFailsRun ==
  /\ loadFailed =>
       /\ farmsConfig = << >>
       /\ pc # "rejected"
       /\ pc = "done" => file = JsonFile(EmptyMap)
  /\ logCount <= 1

\* C9 amended: after a failed configuration load the farm list is empty and
\* the load failure is not propagated; the task goes on to resolve the
\* week-ago block, the only step at which it can still reject; once the block
\* is resolved it requests no batch, starts no stable lookup and writes an
\* empty map. The error is logged exactly once if any load failed.
C9_LoadFailureGivesEmptyRun ==
  /\ loadFailed =>
       /\ farmsConfig = << >>
       /\ abortCause \in {"none", "blockWeek"}
       /\ pc = "rejected" => Req("blockWeek", 0) \in failed
       /\ batchRequests = << >>
       /\ stable = << >>
       /\ blockWeekAgo = WeekAgoBlock => (WriteIssued /\ writeArg = EmptyMap)
       /\ pc = "done" => file = JsonFile(EmptyMap)
  /\ logCount <= 1
  /\ failedLoads > 0 => logCount = 1

\* three loads have failed, one of them the task's own, one line was logged
\* and the empty map has been written
C9_Witness ==
  /\ loadFailed
  /\ failedLoads >= 2
  /\ logCount = 1
  /\ pc = "done"
  /\ file = JsonFile(EmptyMap)

BatchesOutstanding == {r \in outstanding : r.kind = "batch"}

\* C10: batches are requested one at a time in chunk order, each after the
\* previous response has been merged; stable lookups start after the last
\* batch; the write is issued after every stable lookup has settled; only
\* stable lookups are outstanding together.
C10_SequentialBatchesThenStableThenWrite ==
  /\ Cardinality(BatchesOutstanding) <= 1
  /\ \A j \in DOMAIN batchRequests : batchRequests[j] = j
  /\ Len(batchRequests) <= merged + 1
  /\ BatchesOutstanding # {} => BatchesOutstanding = {Req("batch", merged + 1)}
  /\ \A k \in MergedAddresses :
       PairHistory(k[1], sgShift).latest.present => k \in DOMAIN allAprs
  /\ stable # << >> => (merged = Len(addressesInGroups) /\ BatchesOutstanding = {})
  /\ writeCalls > 0 =>
       /\ StableAllSettled(stable)
       /\ outstanding = {}
       /\ merged = Len(addressesInGroups)
  /\ Cardinality(outstanding) > 1 =>
       \A r \in outstanding : r.kind \in {"stableBlock", "stablePrice"}

\* after two batches, two stable lookups are outstanding at once
C10_Witness ==
  /\ Len(batchRequests) = 2
  /\ merged = 2
  /\ Cardinality(outstanding) >= 2
  /\ \E i, j \in DOMAIN stable : i # j /\ stable[i].pc = "block" /\ stable[j].pc = "price"

\* number of requests sent for group k
TimesRequested(k) == Cardinality({j \in DOMAIN batchRequests : batchRequests[j] = k})

\* C11: every network call is attempted once and never sent again after a
\* failure: one week-ago block request, at most one request per address
\* group, and per stable farm at most one day-ago block request and at most
\* one virtual-price request.
C11_EveryCallOnce ==
  /\ blockWeekCalls <= 1
  /\ (pc \notin {"start", "import"} /\ hasBlockClient) => blockWeekCalls = 1
  /\ \A k \in DOMAIN addressesInGroups : TimesRequested(k) <= 1
  /\ \A k \in 1..merged : TimesRequested(k) = 1
  /\ \A i \in DOMAIN stable :
       /\ stable[i].blockCalls = 1
       /\ stable[i].priceCalls <= 1
       /\ stable[i].pc = "price" => stable[i].priceCalls = 1
  /\ \A r \in failed : r \notin outstanding

\* a run is over in which two groups were requested, one stable lookup failed
\* at its block request and another at its price request
C11_Witness ==
  /\ pc = "done"
  /\ Len(batchRequests) = 2
  /\ \E i, j \in DOMAIN stable :
       /\ Req("stableBlock", i) \in failed
       /\ Req("stablePrice", j) \in failed
       /\ stable[i].priceCalls = 0
       /\ stable[j].priceCalls = 1

TaskInFlight == pc \in {"import", "blockWeek", "batch", "stable", "write"}

\* C12: fetchAndUpdateLPsAPR does not join its per-chain task: the call has
\* completed in every state in which the task's import, fetches or file write
\* are in flight, so its completion does not mean that the file is written.
C12_CallCompletesBeforeTask ==
  TaskInFlight => callReturned

\* the call has completed, the write is in flight and the file still has the
\* contents the process found
C12_Witness ==
  /\ callReturned
  /\ pc = "write"
  /\ writeArg # EmptyMap
  /\ file = priorFile
  /\ file # JsonFile(writeArg)

ReturnedAtLatest(addresses) ==
  {k \in addresses : PairHistory(k[1], sgShift).latest.present}

\* C14: the normal-farm keys of the map are exactly the ids the latest-block
\* snapshot returned over all groups; a configured normal farm that is not
\* returned at the latest block has no key, whether or not the week-ago
\* snapshot has it.
C14_NormalKeysAreLatestIds ==
  /\ pc = "batch" => DOMAIN allAprs = ReturnedAtLatest(MergedAddresses)
  /\ WriteIssued => DOMAIN writeArg \ StableKeys = ReturnedAtLatest(NormalAddresses)
  /\ pc = "done" => DOMAIN file.json \ StableKeys = ReturnedAtLatest(NormalAddresses)

\* a file has been written that has keys but none for a normal farm known
\* only to the week-ago snapshot, nor for one unknown to both snapshots
C14_Witness ==
  /\ pc = "done"
  /\ DOMAIN file.json \ StableKeys # {}
  /\ \E k \in NormalAddresses :
       /\ ~PairHistory(k[1], sgShift).latest.present
       /\ PairHistory(k[1], sgShift).weekAgo.present
       /\ k \notin DOMAIN file.json
  /\ \E k \in NormalAddresses :
       /\ ~PairHistory(k[1], sgShift).latest.present
       /\ ~PairHistory(k[1], sgShift).weekAgo.present
       /\ k \notin DOMAIN file.json

====
